---- MODULE Spec2Model ----
(***************************************************************************)
(* A model of nextcloudcli's NextcloudUploader (src/src/nextcloudcli/      *)
(* uploader.py): the resolution of a public share URL into share token,    *)
(* base URL and WebDAV URL, and the two operations upload_file and         *)
(* test_connection, each of which hands one request to the HTTP transport; *)
(* the generator _file_reader_with_progress that produces the body of a    *)
(* streaming upload; and the command line entry point main                 *)
(* (src/src/nextcloudcli/cli.py).                                          *)
(*                                                                         *)
(* A Python str is a sequence of one-character strings, so that parsing,   *)
(* splitting and joining are computed and not assumed.  Python's None is   *)
(* the value None below.  The HTTP transport (the requests library) is the *)
(* environment: an invocation of requests.put / requests.request is one    *)
(* request, and its outcome (a status code or a RequestException) is       *)
(* chosen nondeterministically inside the action that issues it.           *)
(***************************************************************************)
EXTENDS Integers, Sequences, FiniteSets, TLC

VARIABLES
    share_url,      \* constructor argument share_url
    password_arg,   \* constructor argument password (None when omitted)
    phase,          \* "new" before __init__, "ready" after it returned, "failed" after it raised
    init_error,     \* the exception __init__ raised, or None
    share_token,    \* self.share_token
    base_url,       \* self.base_url
    webdav_url,     \* self.webdav_url
    password,       \* self.password
    nPut,           \* number of requests.put invocations so far
    nPropfind,      \* number of requests.request("PROPFIND", ...) invocations so far
    lastRequest,    \* the most recent request handed to the transport, or NoRequest
    lastCall,       \* the most recent upload_file / test_connection call and its outcome, or NoCall
    nCalls,         \* number of upload_file / test_connection calls so far
    nLocalErrors,   \* number of those calls that raised before the transport was invoked
    fileData,       \* the bytes of the local file that is read
    chunk_size,     \* argument chunk_size of _file_reader_with_progress
    reader_pc,      \* the generator: "off", "start" (created, not yet run), "loop", "done"
    pbar_total,     \* total of the progress bar: file_path.stat().st_size
    f_pos,          \* position of the generator's file object f
    reads,          \* what each f.read(chunk_size) of the generator returned, in order
    chunks,         \* the chunks the generator yielded, in order
    pbar_log,       \* the count of the progress bar after each pbar.update, in order
    wholeBody,      \* data of the upload without progress: f.read(), or NoBody
    cli_opts,       \* the options main was called with
    cli_pc,         \* main: "off", "start", "test", "upload", "exit"
    exit_code       \* the exit status of the process, NotExited while it runs

uploaderVars == <<share_url, password_arg, phase, init_error, share_token, base_url,
                  webdav_url, password, nPut, nPropfind, lastRequest, lastCall,
                  nCalls, nLocalErrors>>

readerVars == <<fileData, chunk_size, reader_pc, pbar_total, f_pos, reads, chunks,
                pbar_log, wholeBody>>

cliVars == <<cli_opts, cli_pc, exit_code>>

vars == <<uploaderVars, readerVars, cliVars>>

client == <<share_token, base_url, webdav_url, password>>

-----------------------------------------------------------------------------
(* Bounds of the model.                                                    *)

\* longest path tail of a share URL drawn by InitResolve
MaxPathLen == 6
\* number of upload_file / test_connection calls made on one client
MaxCalls == 2
\* longest local file that is read, in bytes
MaxFileLen == 5
\* largest chunk_size the generator is run with
MaxChunkSize == 3

-----------------------------------------------------------------------------
(* Python str operations on sequences of characters.                       *)

None == <<"<None>">>

\* str.find(c, start): the first index >= start holding c, 0 when there is none
\* (indices are 1-based here, so Python's -1 is 0).
Find(s, c, start) ==
    LET hits == {i \in start..Len(s) : s[i] = c}
    IN IF hits = {} THEN 0 ELSE CHOOSE i \in hits : \A j \in hits : i <= j

\* c in s
Contains(s, c) == \E i \in 1..Len(s) : s[i] = c

\* s[i:] for a 1-based i
From(s, i) == SubSeq(s, i, Len(s))

\* s.startswith(p)
StartsWith(s, p) == Len(s) >= Len(p) /\ SubSeq(s, 1, Len(p)) = p

\* s.endswith(p)
EndsWith(s, p) == Len(s) >= Len(p) /\ SubSeq(s, Len(s) - Len(p) + 1, Len(s)) = p

\* the 1-based start indices at which sub occurs in s
Occurrences(s, sub) ==
    {i \in 1..(Len(s) - Len(sub) + 1) : SubSeq(s, i, i + Len(sub) - 1) = sub}

\* sub in s
ContainsSub(s, sub) == Occurrences(s, sub) # {}

\* s.rfind(sub): the start of the last occurrence, 0 when there is none
RFindSub(s, sub) ==
    LET hits == Occurrences(s, sub)
    IN IF hits = {} THEN 0 ELSE CHOOSE i \in hits : \A j \in hits : j <= i

\* s.rstrip(c) for a single character c: every trailing c is removed
RStrip(s, c) ==
    LET keep == {i \in 1..Len(s) : s[i] # c}
        last == IF keep = {} THEN 0 ELSE CHOOSE i \in keep : \A j \in keep : j <= i
    IN SubSeq(s, 1, last)

\* s.split(c): always at least one part; "".split("/") is [""]
RECURSIVE Split(_, _)
Split(s, c) ==
    LET i == Find(s, c, 1)
    IN IF i = 0 THEN <<s>>
       ELSE <<SubSeq(s, 1, i - 1)>> \o Split(From(s, i + 1), c)

\* c.join(parts)
RECURSIVE Join(_, _)
Join(parts, c) ==
    IF Len(parts) = 0 THEN <<>>
    ELSE IF Len(parts) = 1 THEN parts[1]
    ELSE parts[1] \o <<c>> \o Join(Tail(parts), c)

\* list.index(x): the first position holding x, 0 when list.index raises ValueError
IndexOf(list, x) ==
    LET hits == {i \in 1..Len(list) : list[i] = x}
    IN IF hits = {} THEN 0 ELSE CHOOSE i \in hits : \A j \in hits : i <= j

\* x or y on strings: y when x is None or empty
StrOr(x, y) == IF x = None \/ x = <<>> THEN y ELSE x

\* filter(None, parts): the non-empty strings of parts, in order
RECURSIVE FilterNonEmpty(_)
FilterNonEmpty(parts) ==
    IF Len(parts) = 0 THEN <<>>
    ELSE (IF Head(parts) = <<>> THEN <<>> ELSE <<Head(parts)>>)
         \o FilterNonEmpty(Tail(parts))

-----------------------------------------------------------------------------
(* urllib.parse, as uploader.py uses it (urlparse and urljoin), computed   *)
(* as CPython 3.11 computes it.  The characters of the model are lower     *)
(* case letters and the delimiters : / ? # ; . so that str.lower(), the    *)
(* stripping of control characters and the IPv6 bracket checks of urlsplit *)
(* change nothing.                                                         *)

Letters == {"a", "b", "c", "d", "e", "f", "g", "h", "i", "j", "k", "l", "m",
            "n", "o", "p", "q", "r", "s", "t", "u", "v", "w", "x", "y", "z"}

\* urllib.parse.scheme_chars, restricted to the characters of the model
SchemeChars == Letters \cup {"+", "-", "."}

Str_http == <<"h", "t", "t", "p">>
Str_https == <<"h", "t", "t", "p", "s">>
Str_ftp == <<"f", "t", "p">>

\* urllib.parse.uses_relative / uses_netloc / uses_params: the schemes the
\* model can form that are members of the three tables
UsesRelative == {<<>>, Str_http, Str_https, Str_ftp}
UsesNetloc == {<<>>, Str_http, Str_https, Str_ftp}
UsesParams == {<<>>, Str_http, Str_https, Str_ftp}

\* urlsplit: the position of the colon ending a scheme, 0 when url has no scheme
SchemeColon(url) ==
    LET i == Find(url, ":", 1)
    IN IF i > 1 /\ url[1] \in Letters /\ (\A k \in 1..(i - 1) : url[k] \in SchemeChars)
       THEN i ELSE 0

\* _splitnetloc(url, 2): the position of the first of / ? # at or after the
\* third character, Len(url) + 1 when there is none
NetlocEnd(url) ==
    LET hits == {i \in 3..Len(url) : url[i] \in {"/", "?", "#"}}
    IN IF hits = {} THEN Len(url) + 1 ELSE CHOOSE i \in hits : \A j \in hits : i <= j

\* urlsplit, last step: if '?' in url: url, query = url.split('?', 1)
SplitQuery(scheme, netloc, url, fragment) ==
    LET q == Find(url, "?", 1)
    IN [scheme |-> scheme, netloc |-> netloc,
        path |-> IF q > 0 THEN SubSeq(url, 1, q - 1) ELSE url,
        query |-> IF q > 0 THEN From(url, q + 1) ELSE <<>>,
        fragment |-> fragment]

\* urlsplit, third step: if '#' in url: url, fragment = url.split('#', 1)
SplitFragment(scheme, netloc, url) ==
    LET h == Find(url, "#", 1)
    IN SplitQuery(scheme, netloc,
                  IF h > 0 THEN SubSeq(url, 1, h - 1) ELSE url,
                  IF h > 0 THEN From(url, h + 1) ELSE <<>>)

\* urlsplit, second step: if url[:2] == '//': netloc, url = _splitnetloc(url, 2)
SplitNetloc(scheme, url) ==
    SplitFragment(scheme,
                  IF StartsWith(url, <<"/", "/">>)
                  THEN SubSeq(url, 3, NetlocEnd(url) - 1) ELSE <<>>,
                  IF StartsWith(url, <<"/", "/">>)
                  THEN From(url, NetlocEnd(url)) ELSE url)

\* urllib.parse.urlsplit(url, scheme): first the scheme is split off
UrlSplit(url, default) ==
    SplitNetloc(IF SchemeColon(url) > 0
                THEN SubSeq(url, 1, SchemeColon(url) - 1) ELSE default,
                IF SchemeColon(url) > 0
                THEN From(url, SchemeColon(url) + 1) ELSE url)

\* _splitparams(url): the position of the ; that starts the params, 0 when none
ParamsAt(url) ==
    IF Contains(url, "/")
    THEN Find(url, ";", RFindSub(url, <<"/">>))
    ELSE Find(url, ";", 1)

\* urlparse: if scheme in uses_params and ';' in url: url, params = _splitparams(url)
SplitParams(r) ==
    LET i == IF r.scheme \in UsesParams /\ Contains(r.path, ";")
             THEN ParamsAt(r.path) ELSE 0
    IN [scheme |-> r.scheme, netloc |-> r.netloc,
        path |-> IF i > 0 THEN SubSeq(r.path, 1, i - 1) ELSE r.path,
        params |-> IF i > 0 THEN From(r.path, i + 1) ELSE <<>>,
        query |-> r.query, fragment |-> r.fragment]

\* urllib.parse.urlparse(url, scheme)
UrlParse(url, default) == SplitParams(UrlSplit(url, default))

\* urlunparse: the path with its params, url = "%s;%s" % (url, params)
UnparsePath(r) ==
    IF r.params # <<>> THEN r.path \o <<";">> \o r.params ELSE r.path

\* urlunsplit: whether '//' + netloc is written before the path
WritesNetloc(r) ==
    \/ r.netloc # <<>>
    \/ (r.scheme # <<>> /\ r.scheme \in UsesNetloc
        /\ ~StartsWith(UnparsePath(r), <<"/", "/">>))

\* urllib.parse.urlunparse((scheme, netloc, path, params, query, fragment))
UrlUnparse(r) ==
    (IF r.scheme # <<>> THEN r.scheme \o <<":">> ELSE <<>>)
    \o (IF WritesNetloc(r)
        THEN <<"/", "/">> \o r.netloc
             \o (IF UnparsePath(r) # <<>> /\ Head(UnparsePath(r)) # "/"
                 THEN <<"/">> ELSE <<>>)
        ELSE <<>>)
    \o UnparsePath(r)
    \o (IF r.query # <<>> THEN <<"?">> \o r.query ELSE <<>>)
    \o (IF r.fragment # <<>> THEN <<"#">> \o r.fragment ELSE <<>>)

\* the loop of urljoin that removes dot segments: .. pops (ignored on an empty
\* list), . is skipped, every other segment is appended
RECURSIVE ResolveSegments(_, _)
ResolveSegments(segments, resolved) ==
    IF Len(segments) = 0 THEN resolved
    ELSE ResolveSegments(Tail(segments),
            IF Head(segments) = <<".", ".">>
            THEN (IF Len(resolved) = 0 THEN resolved
                  ELSE SubSeq(resolved, 1, Len(resolved) - 1))
            ELSE IF Head(segments) = <<".">> THEN resolved
            ELSE Append(resolved, Head(segments)))

\* segments[1:-1] = filter(None, segments[1:-1])
FilterMiddle(segments) ==
    IF Len(segments) < 2 THEN segments
    ELSE <<segments[1]>>
         \o FilterNonEmpty(SubSeq(segments, 2, Len(segments) - 1))
         \o <<segments[Len(segments)]>>

\* urljoin: base_parts = bpath.split('/'), without its last item unless that
\* is empty
BaseParts(bp) ==
    IF bp[Len(bp)] # <<>> THEN SubSeq(bp, 1, Len(bp) - 1) ELSE bp

\* urljoin: the segments of the joined path, before the dot segments are resolved
JoinSegments(bpath, path) ==
    IF StartsWith(path, <<"/">>)
    THEN Split(path, "/")
    ELSE FilterMiddle(BaseParts(Split(bpath, "/")) \o Split(path, "/"))

\* urljoin: '/'.join(resolved_path) or '/', a trailing '' appended to
\* resolved_path when the last segment is . or ..
ResolvedPath(segments) ==
    LET joined == Join(IF segments[Len(segments)] \in {<<".">>, <<".", ".">>}
                       THEN Append(ResolveSegments(segments, <<>>), <<>>)
                       ELSE ResolveSegments(segments, <<>>), "/")
    IN IF joined = <<>> THEN <<"/">> ELSE joined

\* urljoin, once base (b) and url (u) are parsed
JoinParsed(url, b, u) ==
    IF u.scheme # b.scheme \/ u.scheme \notin UsesRelative THEN url
    ELSE IF u.scheme \in UsesNetloc /\ u.netloc # <<>> THEN UrlUnparse(u)
    ELSE UrlUnparse(
           IF u.path = <<>> /\ u.params = <<>>
           THEN [scheme |-> u.scheme, netloc |-> b.netloc,
                 path |-> b.path, params |-> b.params,
                 query |-> IF u.query = <<>> THEN b.query ELSE u.query,
                 fragment |-> u.fragment]
           ELSE [scheme |-> u.scheme, netloc |-> b.netloc,
                 path |-> ResolvedPath(JoinSegments(b.path, u.path)),
                 params |-> u.params, query |-> u.query,
                 fragment |-> u.fragment])

\* urljoin: url is parsed with the scheme of base as its default
JoinParsedBase(url, b) == JoinParsed(url, b, UrlParse(url, b.scheme))

\* urllib.parse.urljoin(base, url)
UrlJoin(base, url) ==
    IF base = <<>> THEN url
    ELSE IF url = <<>> THEN base
    ELSE JoinParsedBase(url, UrlParse(base, <<>>))

-----------------------------------------------------------------------------
(* NextcloudUploader: the resolution of the share URL.                     *)

\* the result of a method that returned val / that raised exception exc
Returned(val) == [ok |-> TRUE, val |-> val, exc |-> "none"]
Raised(exc) == [ok |-> FALSE, val |-> None, exc |-> exc]

\* _extract_share_token: parsed.path.rstrip("/").split("/")
PathParts(url) == Split(RStrip(UrlParse(url, <<>>).path, "/"), "/")

\* a variant of SIndex that finds the last "s" instead of the first
SIndexLast(path_parts) ==
    LET hits == {i \in 1..Len(path_parts) : path_parts[i] = <<"s">>}
    IN IF hits = {} THEN 0 ELSE CHOOSE i \in hits : \A j \in hits : j <= i

\* _extract_share_token: path_parts.index("s"), 0 when it raises ValueError
SIndex(path_parts) == IndexOf(path_parts, <<"s">>)

\* _extract_share_token: token = path_parts[s_index + 1]; the ValueError of
\* index and the IndexError of the subscript both become a ValueError
TokenAt(path_parts, s_index) ==
    IF s_index = 0 THEN Raised("ValueError")
    ELSE IF s_index + 1 > Len(path_parts) THEN Raised("ValueError")
    ELSE Returned(path_parts[s_index + 1])

\* _extract_share_token, once the path is split
TokenOf(path_parts) == TokenAt(path_parts, SIndex(path_parts))

\* NextcloudUploader._extract_share_token(share_url)
ExtractShareToken(url) == TokenOf(PathParts(url))

\* _get_base_url: if "/s/" in path: path = path[: path.rfind("/s/")]
BasePath(path) ==
    IF ContainsSub(path, <<"/", "s", "/">>)
    THEN SubSeq(path, 1, RFindSub(path, <<"/", "s", "/">>) - 1)
    ELSE path

\* _get_base_url, once the URL is parsed
BaseUrlOf(parsed) ==
    parsed.scheme \o <<":", "/", "/">> \o parsed.netloc
    \o BasePath(RStrip(parsed.path, "/"))

\* NextcloudUploader._get_base_url(share_url)
GetBaseUrl(url) == BaseUrlOf(UrlParse(url, <<>>))

Str_public_php_webdav ==
    <<"p", "u", "b", "l", "i", "c", ".", "p", "h", "p", "/", "w", "e", "b", "d", "a", "v", "/">>

\* NextcloudUploader._construct_webdav_url(base_url)
ConstructWebdavUrl(base) ==
    UrlJoin(IF EndsWith(base, <<"/">>) THEN base ELSE base \o <<"/">>,
            Str_public_php_webdav)

-----------------------------------------------------------------------------
(* The inputs of the model.                                                *)

\* all strings over chars of length at most n
RECURSIVE StringsUpTo(_, _)
StringsUpTo(chars, n) ==
    IF n = 0 THEN {<<>>}
    ELSE LET shorter == StringsUpTo(chars, n - 1)
         IN shorter \cup {Append(s, c) : s \in {x \in shorter : Len(x) = n - 1}, c \in chars}

\* what precedes the path tail: an https URL with a host, or nothing at all
\* (a share URL typed without scheme and host)
UrlPrefixes == {Str_https \o <<":", "/", "/", "n">>, <<>>}

\* what follows the path tail: nothing, a query, a fragment, or params
UrlSuffixes == {<<>>, <<"?", "/", "s", "/", "t">>, <<"#", "/", "s", "/", "t">>, <<";", "t">>}

\* the characters of the path tails drawn for the resolution of share URLs
ResolvePathChars == {"/", "s", "t", "."}

ResolveUrls ==
    {p \o tail \o x : p \in UrlPrefixes,
                      tail \in StringsUpTo(ResolvePathChars, MaxPathLen),
                      x \in UrlSuffixes}

\* the share URLs of the clients that make calls: https://n/s/t and
\* https://n/a/s/t/ resolve, https://n/a/t and https://n/s/ are malformed
ClientUrls ==
    {Str_https \o <<":", "/", "/", "n">> \o tail :
        tail \in {<<"/", "s", "/", "t">>,
                  <<"/", "a", "/", "s", "/", "t", "/">>,
                  <<"/", "a", "/", "t">>,
                  <<"/", "s", "/">>}}

\* the password argument: omitted (None), empty, or a password
PasswordArgs == {None, <<>>, <<"p", "w">>}

\* a local path: file_path.name and what the file system holds there.
\* The directory named "" is a path such as Path("/"), whose name is empty.
LocalFiles ==
    {[name |-> <<"f">>, kind |-> "file"],
     [name |-> <<"f">>, kind |-> "missing"],
     [name |-> <<"f">>, kind |-> "unreadable"],
     [name |-> <<>>, kind |-> "dir"]}

\* the remote_name argument: None, "", "r", "/r", "../r", "a/r" and "https://e/r"
RemoteNames ==
    {None, <<>>, <<"r">>, <<"/", "r">>, <<".", ".", "/", "r">>, <<"a", "/", "r">>,
     Str_https \o <<":", "/", "/", "e", "/", "r">>}

\* the status codes the server answers with
Statuses == {200, 201, 204, 207, 401, 403, 404, 500}

\* what the transport does with one request: a response with a status, or a
\* requests.exceptions.RequestException (connection, timeout, DNS, TLS)
Outcomes ==
    {[kind |-> "response", status |-> s] : s \in Statuses}
    \cup {[kind |-> "error", status |-> 0]}

NoOutcome == [kind |-> "none", status |-> 0]
NoRequest == [method |-> "none", url |-> None, username |-> None, password |-> None]
NoFile == [name |-> None, kind |-> "none"]
NoCall == [op |-> "none", file |-> NoFile, remote_name |-> None, show_progress |-> FALSE,
           target_name |-> None, requested |-> FALSE, outcome |-> NoOutcome,
           result |-> "none", putsBefore |-> 0, propfindsBefore |-> 0]

-----------------------------------------------------------------------------
(* NextcloudUploader.__init__                                              *)

\* the whole file has not been read: no bytes object, not even b"", equals it
NoBody == <<-1>>

\* no generator exists and no file has been read
ReaderOff ==
    /\ fileData = <<>>
    /\ chunk_size = 1
    /\ reader_pc = "off"
    /\ pbar_total = 0
    /\ f_pos = 0
    /\ reads = <<>>
    /\ chunks = <<>>
    /\ pbar_log = <<>>
    /\ wholeBody = NoBody

InitUploader(urls, passwords) ==
    /\ share_url \in urls
    /\ password_arg \in passwords
    /\ phase = "new"
    /\ init_error = "none"
    /\ share_token = None
    /\ base_url = None
    /\ webdav_url = None
    /\ password = None
    /\ nPut = 0
    /\ nPropfind = 0
    /\ lastRequest = NoRequest
    /\ lastCall = NoCall
    /\ nCalls = 0
    /\ nLocalErrors = 0

\* the process has not exited
NotExited == -1

NoOptions == [test_connection |-> FALSE, quiet |-> FALSE, file_path |-> NoFile,
              remote_name |-> None]

\* the uploader is used as a library: main does not run
CliOff ==
    /\ cli_opts = NoOptions
    /\ cli_pc = "off"
    /\ exit_code = NotExited

InitWith(urls, passwords) == InitUploader(urls, passwords) /\ ReaderOff /\ CliOff

Init == InitWith(ClientUrls, PasswordArgs)

\* the resolution does not read the password: it is left out
InitResolve == InitWith(ResolveUrls, {None})

\* a variant of InitPassword that stores the argument as given
InitPasswordAsGiven(pw) == pw

\* self.password = password or ""
InitPassword(pw) == StrOr(pw, <<>>)

\* NextcloudUploader(share_url, password): the object exists only when
\* _extract_share_token did not raise
NextcloudUploader ==
    /\ phase = "new"
    /\ LET token == ExtractShareToken(share_url)
           base == GetBaseUrl(share_url)
       IN IF token.ok
          THEN /\ phase' = "ready"
               /\ init_error' = "none"
               /\ password' = InitPassword(password_arg)
               /\ share_token' = token.val
               /\ base_url' = base
               /\ webdav_url' = ConstructWebdavUrl(base)
          ELSE /\ phase' = "failed"
               /\ init_error' = token.exc
               /\ UNCHANGED client
    /\ UNCHANGED <<share_url, password_arg, nPut, nPropfind, lastRequest, lastCall,
                   nCalls, nLocalErrors>>

\* a caller of the library constructs the uploader
Construct == NextcloudUploader /\ UNCHANGED <<readerVars, cliVars>>

-----------------------------------------------------------------------------
(* NextcloudUploader.upload_file and NextcloudUploader.test_connection     *)

\* a variant of PathExists that lets every path through
PathExistsUnchecked(file) == TRUE

\* file_path.exists()
PathExists(file) == file.kind # "missing"

\* target_name = remote_name or file_path.name
TargetName(remote_name, file) == StrOr(remote_name, file.name)

\* upload_url = urljoin(self.webdav_url, target_name)
UploadUrl(webdav, target_name) == UrlJoin(webdav, target_name)

\* open(file_path, "rb"): "ok", or the OSError it raises
OpenForRead(file) ==
    CASE file.kind = "file" -> "ok"
      [] file.kind = "missing" -> "FileNotFoundError"
      [] file.kind = "dir" -> "IsADirectoryError"
      [] file.kind = "unreadable" -> "PermissionError"

\* response.status_code in [200, 201, 204]
UploadSuccessCodes == {200, 201, 204}

\* response.status_code in [200, 207]
ConnectionSuccessCodes == {200, 207}

\* a variant of UploadResult that returns False on a RequestException, as
\* test_connection does
UploadResultSwallowing(outcome) ==
    IF outcome.kind = "error" THEN "False"
    ELSE IF outcome.status \in UploadSuccessCodes THEN "True" ELSE "False"

\* upload_file after requests.put: True / False by the status; a
\* RequestException is logged and raised again
UploadResult(outcome) ==
    IF outcome.kind = "error" THEN "RequestException"
    ELSE IF outcome.status \in UploadSuccessCodes THEN "True" ELSE "False"

\* a variant of ConnectionResult that raises the RequestException again, as
\* upload_file does
ConnectionResultRaising(outcome) ==
    IF outcome.kind = "error" THEN "RequestException"
    ELSE IF outcome.status \in ConnectionSuccessCodes THEN "True" ELSE "False"

\* test_connection after requests.request: True / False by the status; a
\* RequestException is logged and False returned
ConnectionResult(outcome) ==
    IF outcome.kind = "error" THEN "False"
    ELSE IF outcome.status \in ConnectionSuccessCodes THEN "True" ELSE "False"

\* a variant of PutAttempts that sends the PUT again after a failure
PutAttemptsRetrying(outcome) ==
    IF outcome.kind = "response" /\ outcome.status \in UploadSuccessCodes THEN 1 ELSE 2

\* upload_file calls requests.put once, outside any loop, whatever the outcome
PutAttempts(outcome) == 1

\* test_connection calls requests.request once, outside any loop
PropfindAttempts(outcome) == 1

\* auth=(self.share_token, self.password) of requests.put
PutRequest(url) ==
    [method |-> "PUT", url |-> url, username |-> share_token, password |-> password]

\* auth=(self.share_token, self.password) of requests.request("PROPFIND", ...)
PropfindRequest ==
    [method |-> "PROPFIND", url |-> webdav_url, username |-> share_token,
     password |-> password]

\* The streaming body is a generator: _file_reader_with_progress runs only when
\* the transport reads the body, inside requests.put.  When stat/open raises
\* there, the OSError leaves requests.put as it is or wrapped in a
\* RequestException, depending on the transport.
BodyFailureResults(opened) == {opened, "RequestException"}

\* a variant of WebdavUrlAfterUpload that keeps the joined URL in self.webdav_url
WebdavUrlStoringUpload(upload_url) == upload_url

\* upload_url = urljoin(self.webdav_url, target_name) binds a local name:
\* self.webdav_url is what it was
WebdavUrlAfterUpload(upload_url) == webdav_url

\* NextcloudUploader.upload_file(file_path, remote_name, show_progress)
upload_file(file, remote_name, show_progress) ==
    /\ phase = "ready"
    /\ nCalls' = nCalls + 1
    /\ LET target_name == TargetName(remote_name, file)
           upload_url == UploadUrl(webdav_url, target_name)
           opened == OpenForRead(file)
           call == [op |-> "upload_file", file |-> file, remote_name |-> remote_name,
                    show_progress |-> show_progress, target_name |-> target_name,
                    requested |-> FALSE, outcome |-> NoOutcome, result |-> "none",
                    putsBefore |-> nPut, propfindsBefore |-> nPropfind]
       IN IF ~PathExists(file)
          THEN \* raise FileNotFoundError
               /\ lastCall' = [call EXCEPT !.target_name = None,
                                           !.result = "FileNotFoundError"]
               /\ nLocalErrors' = nLocalErrors + 1
               /\ UNCHANGED <<nPut, lastRequest, webdav_url>>
          ELSE IF ~show_progress /\ opened # "ok"
          THEN \* open(file_path, "rb") raises; it is no RequestException
               /\ lastCall' = [call EXCEPT !.result = opened]
               /\ nLocalErrors' = nLocalErrors + 1
               /\ webdav_url' = WebdavUrlAfterUpload(upload_url)
               /\ UNCHANGED <<nPut, lastRequest>>
          ELSE \* requests.put(upload_url, data=data, auth=..., headers=...)
               /\ lastRequest' = PutRequest(upload_url)
               /\ webdav_url' = WebdavUrlAfterUpload(upload_url)
               /\ nLocalErrors' = nLocalErrors
               /\ \E outcome \in Outcomes :
                    /\ nPut' = nPut + PutAttempts(outcome)
                    /\ \E result \in (IF opened = "ok" THEN {UploadResult(outcome)}
                                      ELSE IF outcome.kind = "error" THEN {"RequestException"}
                                      ELSE BodyFailureResults(opened)) :
                           lastCall' = [call EXCEPT !.requested = TRUE,
                                                    !.outcome = outcome,
                                                    !.result = result]
    /\ UNCHANGED <<share_url, password_arg, phase, init_error, share_token, base_url,
                   password, nPropfind>>

\* a caller of the library uploads a file, at most MaxCalls calls on one client
UploadFile(file, remote_name, show_progress) ==
    /\ nCalls < MaxCalls
    /\ upload_file(file, remote_name, show_progress)
    /\ UNCHANGED <<readerVars, cliVars>>

\* NextcloudUploader.test_connection()
test_connection ==
    /\ phase = "ready"
    /\ nCalls' = nCalls + 1
    /\ lastRequest' = PropfindRequest
    /\ \E outcome \in Outcomes :
         /\ nPropfind' = nPropfind + PropfindAttempts(outcome)
         /\ lastCall' = [NoCall EXCEPT !.op = "test_connection", !.requested = TRUE,
                                       !.outcome = outcome,
                                       !.result = ConnectionResult(outcome),
                                       !.putsBefore = nPut,
                                       !.propfindsBefore = nPropfind]
    /\ UNCHANGED <<share_url, password_arg, phase, init_error, client, nPut,
                   nLocalErrors>>

\* a caller of the library tests the connection, at most MaxCalls calls on one
\* client
TestConnection ==
    /\ nCalls < MaxCalls
    /\ test_connection
    /\ UNCHANGED <<readerVars, cliVars>>

Next ==
    \/ Construct
    \/ \E file \in LocalFiles, remote_name \in RemoteNames, show_progress \in BOOLEAN :
            UploadFile(file, remote_name, show_progress)
    \/ TestConnection

Spec == Init /\ [][Next]_vars

\* the resolution of share URLs alone, over the larger set of URLs
NextResolve == Construct

SpecResolve == InitResolve /\ [][NextResolve]_vars

-----------------------------------------------------------------------------
(* The body of the PUT: NextcloudUploader._file_reader_with_progress, the  *)
(* generator that the transport iterates when show_progress is set, and    *)
(* the read of the whole file when it is not.  The file is a readable      *)
(* regular file, a sequence of bytes that does not change while it is      *)
(* read; f is a buffered binary file, so f.read(n) returns n bytes unless  *)
(* fewer are left.                                                         *)

\* the byte values the files of the model are made of
FileBytes == {0, 255}

\* the local files that are read
Files == StringsUpTo(FileBytes, MaxFileLen)

\* the concatenation of a list of byte strings
RECURSIVE Concat(_)
Concat(parts) ==
    IF Len(parts) = 0 THEN <<>> ELSE Head(parts) \o Concat(Tail(parts))

\* a variant of FRead that reads with no size: f.read()
FReadUnsized(data, pos, n) == SubSeq(data, pos + 1, Len(data))

\* f.read(n) at position pos: the next n bytes, fewer at the end of the file,
\* b"" once the end is reached
FRead(data, pos, n) ==
    SubSeq(data, pos + 1, IF pos + n > Len(data) THEN Len(data) ELSE pos + n)

\* f.read() of a file just opened: every byte
FReadAll(data) == SubSeq(data, 1, Len(data))

\* a variant of LoopEnds that leaves the loop at the first short read
LoopEndsOnShortRead(chunk, n) == Len(chunk) < n

\* if not chunk: break
LoopEnds(chunk, n) == chunk = <<>>

\* a variant of PbarUpdate that advances by chunk_size: pbar.update(chunk_size)
PbarUpdateByChunkSize(count, chunk, n) == count + n

\* pbar.update(len(chunk)): the count of the bar grows by len(chunk)
PbarUpdate(count, chunk, n) == count + Len(chunk)

\* the count of the progress bar (tqdm's n, 0 when the bar is created)
PbarN == IF pbar_log = <<>> THEN 0 ELSE pbar_log[Len(pbar_log)]

InitRead ==
    /\ InitUploader({Str_https \o <<":", "/", "/", "n", "/", "s", "/", "t">>}, {None})
    /\ fileData \in Files
    /\ chunk_size \in 1..MaxChunkSize
    /\ reader_pc = "start"
    /\ pbar_total = 0
    /\ f_pos = 0
    /\ reads = <<>>
    /\ chunks = <<>>
    /\ pbar_log = <<>>
    /\ wholeBody = NoBody
    /\ CliOff

\* the generator up to its loop: file_size = file_path.stat().st_size,
\* open(file_path, "rb"), tqdm(total=file_size, ...)
ReaderStart ==
    /\ reader_pc = "start"
    /\ reader_pc' = "loop"
    /\ pbar_total' = Len(fileData)
    /\ f_pos' = 0
    /\ UNCHANGED <<fileData, chunk_size, reads, chunks, pbar_log, wholeBody>>
    /\ UNCHANGED <<uploaderVars, cliVars>>

\* one turn of the loop: chunk = f.read(chunk_size); break when it is empty,
\* else pbar.update(len(chunk)) and yield chunk
ReaderRead ==
    /\ reader_pc = "loop"
    /\ LET chunk == FRead(fileData, f_pos, chunk_size)
       IN /\ f_pos' = f_pos + Len(chunk)
          /\ reads' = Append(reads, chunk)
          /\ IF LoopEnds(chunk, chunk_size)
             THEN /\ reader_pc' = "done"
                  /\ UNCHANGED <<chunks, pbar_log>>
             ELSE /\ reader_pc' = "loop"
                  /\ pbar_log' = Append(pbar_log, PbarUpdate(PbarN, chunk, chunk_size))
                  /\ chunks' = Append(chunks, chunk)
    /\ UNCHANGED <<fileData, chunk_size, pbar_total, wholeBody>>
    /\ UNCHANGED <<uploaderVars, cliVars>>

\* upload_file without progress: with open(file_path, "rb") as f: data = f.read()
ReadWhole ==
    /\ reader_pc # "off"
    /\ wholeBody = NoBody
    /\ wholeBody' = FReadAll(fileData)
    /\ UNCHANGED <<fileData, chunk_size, reader_pc, pbar_total, f_pos, reads, chunks,
                   pbar_log>>
    /\ UNCHANGED <<uploaderVars, cliVars>>

NextRead ==
    \/ ReaderStart
    \/ ReaderRead
    \/ ReadWhole

\* the two ways of reading the body, applied to every file and chunk size
SpecRead == InitRead /\ [][NextRead]_vars

\* the transport iterates the generator until it is exhausted: a generator
\* that can take its next step does take it
SpecReadLive == SpecRead /\ WF_vars(ReaderStart) /\ WF_vars(ReaderRead)

-----------------------------------------------------------------------------
(* The command line entry point: main of src/src/nextcloudcli/cli.py, once *)
(* click has accepted the options.  click has seen the path of --file      *)
(* exist; when upload_file runs the path may be a directory, or gone or    *)
(* unreadable by then.  --verbose only sets the log level and is left out. *)

\* the options of a run: --test-connection, --quiet, --file, --remote-name
\* (--share-url and --password are share_url and password_arg)
CliOptions ==
    [test_connection : BOOLEAN, quiet : BOOLEAN, file_path : LocalFiles,
     remote_name : RemoteNames]

\* show_progress = not quiet and sys.stdout.isatty()
ShowProgress(quiet, isatty) == ~quiet /\ isatty

\* what leaves the try block of main after an operation: sys.exit(0) when it
\* returned True, sys.exit(1) when it returned False (both raise SystemExit),
\* or the exception it raised
Leaves(result) ==
    CASE result = "True" -> [exc |-> "SystemExit", code |-> 0]
      [] result = "False" -> [exc |-> "SystemExit", code |-> 1]
      [] OTHER -> [exc |-> result, code |-> 1]

\* a variant of IsException for a last handler that is a bare except
IsExceptionBare(exc) == TRUE

\* whether one of except FileNotFoundError / ValueError / Exception catches
\* exc: every exception of the model derives from Exception but SystemExit,
\* which derives from BaseException alone
IsException(exc) == exc # "SystemExit"

\* the exit status of the process: each handler calls sys.exit(1); a
\* SystemExit that no handler catches ends the process with its code
ExitStatus(leaving) == IF IsException(leaving.exc) THEN 1 ELSE leaving.code

\* a variant of ConnectionTestExits in which only the successful branch exits
ConnectionTestExitsOnSuccess(result) == result = "True"

\* if uploader.test_connection(): ... sys.exit(0) else: ... sys.exit(1):
\* both branches leave main
ConnectionTestExits(result) == TRUE

InitCli ==
    /\ InitUploader(ClientUrls, PasswordArgs)
    /\ ReaderOff
    /\ cli_opts \in CliOptions
    /\ cli_pc = "start"
    /\ exit_code = NotExited

\* uploader = NextcloudUploader(share_url, password); a ValueError goes to
\* except ValueError; then if test_connection:
CliConstruct ==
    /\ cli_pc = "start"
    /\ NextcloudUploader
    /\ IF phase' = "failed"
       THEN /\ cli_pc' = "exit"
            /\ exit_code' = ExitStatus([exc |-> init_error', code |-> 1])
       ELSE /\ cli_pc' = (IF cli_opts.test_connection THEN "test" ELSE "upload")
            /\ exit_code' = exit_code
    /\ UNCHANGED <<cli_opts, readerVars>>

\* if uploader.test_connection(): sys.exit(0) else: sys.exit(1)
CliTestConnection ==
    /\ cli_pc = "test"
    /\ test_connection
    /\ IF ConnectionTestExits(lastCall'.result)
       THEN /\ cli_pc' = "exit"
            /\ exit_code' = ExitStatus(Leaves(lastCall'.result))
       ELSE /\ cli_pc' = "upload"
            /\ exit_code' = exit_code
    /\ UNCHANGED <<cli_opts, readerVars>>

\* success = uploader.upload_file(file_path, remote_name, show_progress=...);
\* sys.exit(0) if success else sys.exit(1); an exception goes to its handler
CliUpload ==
    /\ cli_pc = "upload"
    /\ \E isatty \in BOOLEAN :
          upload_file(cli_opts.file_path, cli_opts.remote_name,
                      ShowProgress(cli_opts.quiet, isatty))
    /\ cli_pc' = "exit"
    /\ exit_code' = ExitStatus(Leaves(lastCall'.result))
    /\ UNCHANGED <<cli_opts, readerVars>>

NextCli ==
    \/ CliConstruct
    \/ CliTestConnection
    \/ CliUpload

\* one run of the command line tool
SpecCli == InitCli /\ [][NextCli]_vars

-----------------------------------------------------------------------------
(* The claims about upload_file and test_connection, under Spec.           *)

\* the number of requests handed to the transport so far
Requests == nPut + nPropfind

\* C1: an upload_file call on an existing, readable regular file returns True
\* exactly when the PUT was answered with status 200, 201 or 204, returns
\* False for every other status, and raises the RequestException exactly when
\* the transport failed.
C1_UploadOutcome ==
    (lastCall.op = "upload_file" /\ lastCall.file.kind = "file") =>
        /\ lastCall.requested
        /\ lastCall.result \in {"True", "False", "RequestException"}
        /\ (lastCall.result = "True") <=>
              (lastCall.outcome.kind = "response"
               /\ lastCall.outcome.status \in {200, 201, 204})
        /\ (lastCall.result = "False") <=>
              (lastCall.outcome.kind = "response"
               /\ lastCall.outcome.status \notin {200, 201, 204})
        /\ (lastCall.result = "RequestException") <=> (lastCall.outcome.kind = "error")

\* C1 witness: an upload of an existing file whose PUT failed in the transport
\* has raised the RequestException.
C1_Witness ==
    /\ lastCall.op = "upload_file"
    /\ lastCall.file.kind = "file"
    /\ lastCall.outcome.kind = "error"
    /\ lastCall.result = "RequestException"

\* C2: test_connection never raises: it returns True exactly when the
\* PROPFIND was answered with status 200 or 207 and False for every other
\* status and for every RequestException of the transport.
C2_ConnectionOutcome ==
    (lastCall.op = "test_connection") =>
        /\ lastCall.result \in {"True", "False"}
        /\ (lastCall.result = "True") <=>
              (lastCall.outcome.kind = "response"
               /\ lastCall.outcome.status \in {200, 207})

\* C2 witness: a test_connection whose PROPFIND failed in the transport has
\* returned False.
C2_Witness ==
    /\ lastCall.op = "test_connection"
    /\ lastCall.outcome.kind = "error"
    /\ lastCall.result = "False"

\* C3: validation fails before any network activity: a client whose
\* construction raised has issued no request, and an upload_file call on a
\* missing path raises FileNotFoundError with no request handed to the
\* transport during the call.
C3_FailFast ==
    /\ (phase = "failed") =>
          (init_error = "ValueError" /\ Requests = 0 /\ lastRequest = NoRequest)
    /\ (lastCall.op = "upload_file" /\ lastCall.file.kind = "missing") =>
          /\ lastCall.result = "FileNotFoundError"
          /\ ~lastCall.requested
          /\ nPut = lastCall.putsBefore
          /\ nPropfind = lastCall.propfindsBefore

\* C3 witness: an upload in progress mode of a missing path, after an earlier
\* call, has raised FileNotFoundError.
C3_Witness ==
    /\ lastCall.op = "upload_file"
    /\ lastCall.file.kind = "missing"
    /\ lastCall.show_progress
    /\ lastCall.result = "FileNotFoundError"
    /\ nCalls = 2

\* C4: each call hands exactly one request to the transport and never
\* retries: an upload_file call on an existing, readable regular file issues
\* one PUT and no PROPFIND, a test_connection call one PROPFIND and no PUT,
\* whatever the outcome; so the requests issued are as many as the calls that
\* reached the transport.
C4_OneRequestPerCall ==
    /\ (lastCall.op = "upload_file" /\ lastCall.file.kind = "file") =>
          /\ nPut = lastCall.putsBefore + 1
          /\ nPropfind = lastCall.propfindsBefore
          /\ lastRequest.method = "PUT"
    /\ (lastCall.op = "test_connection") =>
          /\ nPropfind = lastCall.propfindsBefore + 1
          /\ nPut = lastCall.putsBefore
          /\ lastRequest.method = "PROPFIND"
    /\ Requests = nCalls - nLocalErrors

\* C4 witness: two calls, one PUT and one PROPFIND, the last one a failure of
\* the transport.
C4_Witness ==
    /\ nCalls = 2
    /\ nPut = 1
    /\ nPropfind = 1
    /\ lastCall.outcome.kind = "error"

\* C8: the password the client holds is the one supplied, or "" when none or
\* None was supplied, never None; and every PUT and every PROPFIND carries
\* the share token as username and that password.
C8_Credentials ==
    /\ (phase = "ready") =>
          /\ password # None
          /\ password = (IF password_arg = None THEN <<>> ELSE password_arg)
    /\ (lastRequest # NoRequest) =>
          /\ lastRequest.method \in {"PUT", "PROPFIND"}
          /\ lastRequest.username = share_token
          /\ lastRequest.username = ExtractShareToken(share_url).val
          /\ lastRequest.password = (IF password_arg = None THEN <<>> ELSE password_arg)

\* C8 witness: a PUT of a client built without a password carries the empty
\* password.
C8_Witness ==
    /\ password_arg = None
    /\ lastRequest.method = "PUT"
    /\ lastRequest.password = <<>>

-----------------------------------------------------------------------------
(* The claims about the resolution of the share URL, under SpecResolve.    *)

\* the path of the share URL (without params, query and fragment)
UrlPath == UrlParse(share_url, <<>>).path

\* the segments of the path of the share URL, trailing slashes ignored
Segments == Split(RStrip(UrlPath, "/"), "/")

\* the share URL is an https URL with a host
IsHttpsUrl == StartsWith(share_url, Str_https \o <<":", "/", "/", "n">>)

\* C5 as claimed: construction fails with the "Could not extract share token"
\* ValueError when the path has no segment "s" or "s" is its last segment,
\* and succeeds for every other URL.
C5_Original ==
    (phase # "new") =>
        /\ (phase = "failed") <=>
              \/ ~\E i \in 1..Len(Segments) : Segments[i] = <<"s">>
              \/ Segments[Len(Segments)] = <<"s">>
        /\ (phase = "failed") => (init_error = "ValueError")

\* C5 as amended: construction fails with the "Could not extract share token"
\* ValueError exactly when no segment "s" of the path is followed by a further
\* segment, and succeeds otherwise, also when a later "s" is the last segment.
C5_FailsIffNoSegmentAfterS ==
    (phase # "new") =>
        /\ (phase = "failed") <=>
              ~\E i \in 1..(Len(Segments) - 1) : Segments[i] = <<"s">>
        /\ (phase = "failed") => (init_error = "ValueError")
        /\ (phase = "ready") => (init_error = "none")

\* C5 witness: a URL whose last segment is "s" has resolved, by an earlier "s".
C5_Witness ==
    /\ phase = "ready"
    /\ Segments[Len(Segments)] = <<"s">>
    /\ Len(share_token) > 0

\* C6 as claimed: when the path of an https share URL ends in /s/<token> (an
\* optional trailing slash ignored), construction succeeds and the share token
\* is exactly <token>, whatever precedes /s/.
C6_Original ==
    (phase # "new" /\ IsHttpsUrl /\ Len(Segments) >= 2
     /\ Segments[Len(Segments) - 1] = <<"s">>) =>
        /\ phase = "ready"
        /\ share_token = Segments[Len(Segments)]

\* C7 as claimed: for an https share URL that resolves, base_url is
\* scheme://host plus the path prefix before /s/ with no trailing slash, and
\* webdav_url is base_url + "/public.php/webdav/", ends in exactly one slash
\* and holds no double slash after the one of the scheme separator.
C7_Original ==
    (phase = "ready" /\ IsHttpsUrl) =>
        LET parsed == UrlParse(share_url, <<>>)
            origin == parsed.scheme \o <<":", "/", "/">> \o parsed.netloc
        IN /\ \E k \in 0..Len(parsed.path) :
                 /\ StartsWith(parsed.path, SubSeq(parsed.path, 1, k) \o <<"/", "s", "/">>)
                 /\ base_url = origin \o RStrip(SubSeq(parsed.path, 1, k), "/")
           /\ ~EndsWith(base_url, <<"/">>)
           /\ webdav_url = base_url \o <<"/">> \o Str_public_php_webdav
           /\ EndsWith(webdav_url, <<"/">>)
           /\ Occurrences(webdav_url, <<"/", "/">>) = {Len(parsed.scheme) + 2}

\* C15 as claimed: every https share URL either fails to resolve or resolves
\* to a share token that is not the empty string, also when the segment "s"
\* is followed by an empty segment.
C15_Original ==
    (phase = "ready" /\ IsHttpsUrl) => share_token # <<>>

\* C17 as claimed: share_token and base_url of an https share URL that
\* resolves come from the same segment "s": the path of the URL begins with
\* the path of base_url, then /s/, then share_token.
C17_Original ==
    (phase = "ready" /\ IsHttpsUrl) =>
        LET origin == Str_https \o <<":", "/", "/">> \o UrlParse(share_url, <<>>).netloc
        IN /\ StartsWith(base_url, origin)
           /\ StartsWith(UrlPath, From(base_url, Len(origin) + 1)
                                   \o <<"/", "s", "/">> \o share_token)

-----------------------------------------------------------------------------
(* The claims about the target of the upload, under Spec.                  *)

\* C9 as claimed: the target name is remote_name when one is supplied and
\* file_path.name otherwise, it is not empty when a PUT is issued, and the URL
\* of the PUT is webdav_url followed by the target name.
C9_Original ==
    (lastCall.op = "upload_file" /\ lastCall.requested) =>
        /\ lastCall.target_name =
              (IF lastCall.remote_name \notin {None, <<>>}
               THEN lastCall.remote_name ELSE lastCall.file.name)
        /\ lastCall.target_name # <<>>
        /\ lastRequest.method = "PUT"
        /\ lastRequest.url = webdav_url \o lastCall.target_name

\* C10 as claimed: for every remote_name the URL of the PUT has webdav_url as
\* a prefix and exactly one path segment after it.
C10_Original ==
    (lastCall.op = "upload_file" /\ lastCall.requested) =>
        /\ StartsWith(lastRequest.url, webdav_url)
        /\ Len(lastRequest.url) > Len(webdav_url)
        /\ ~Contains(From(lastRequest.url, Len(webdav_url) + 1), "/")

-----------------------------------------------------------------------------
(* The claim about the client's fields across calls, under Spec.           *)

\* C12: no upload_file or test_connection call, whatever its outcome, changes
\* share_token, base_url, webdav_url or password of a constructed client, so
\* a PROPFIND after any number of calls goes to the webdav_url and carries the
\* credentials that construction computed.
C12_ClientFixed ==
    [][(phase = "ready") =>
          /\ client' = client
          /\ (lastRequest'.method = "PROPFIND" /\ nCalls' = nCalls + 1) =>
                /\ lastRequest'.url = ConstructWebdavUrl(GetBaseUrl(share_url))
                /\ lastRequest'.username = ExtractShareToken(share_url).val
                /\ lastRequest'.password = StrOr(password_arg, <<>>)]_vars

\* C12 witness: a test_connection made after an upload_file whose PUT failed
\* in the transport.
C12_Witness ==
    /\ nCalls = 2
    /\ nPut = 1
    /\ lastCall.op = "test_connection"
    /\ lastCall.propfindsBefore = 0
    /\ lastRequest.url = webdav_url

-----------------------------------------------------------------------------
(* The claims about local paths that exist but cannot be read, under Spec. *)

\* C11 as claimed: an upload_file call on a path that exists but is no
\* readable regular file (a directory, a file that cannot be opened) raises
\* FileNotFoundError, as for a missing path, in both modes, with no request
\* handed to the transport during the call.
C11_Original ==
    (lastCall.op = "upload_file" /\ lastCall.file.kind \in {"dir", "unreadable"}) =>
        /\ lastCall.result = "FileNotFoundError"
        /\ ~lastCall.requested
        /\ nPut = lastCall.putsBefore
        /\ nPropfind = lastCall.propfindsBefore

-----------------------------------------------------------------------------
(* The claims about the body of the PUT, under SpecRead and SpecReadLive.  *)

\* C13: for every file, also the empty one and those whose length is or is
\* not a multiple of chunk_size, the chunks the generator yields, put
\* together, are the bytes that the read of the whole file returns.
C13_SameBody ==
    (reader_pc = "done" /\ wholeBody # NoBody) => Concat(chunks) = wholeBody

\* C13 witness: a file of more than one chunk whose length is no multiple of
\* chunk_size has been read both ways.
C13_Witness ==
    /\ reader_pc = "done"
    /\ wholeBody # NoBody
    /\ Len(chunks) >= 2
    /\ Len(fileData) % chunk_size # 0

\* C14: the progress bar is updated once for each chunk that is read, its
\* count is the number of bytes yielded so far, it grows strictly with every
\* update, it never exceeds the file size, and it is the file size when the
\* loop has finished.
C14_Progress ==
    /\ Len(pbar_log) = Len(chunks)
    /\ \A i \in 1..Len(pbar_log) :
          /\ pbar_log[i] = Len(Concat(SubSeq(chunks, 1, i)))
          /\ pbar_log[i] > (IF i = 1 THEN 0 ELSE pbar_log[i - 1])
          /\ pbar_log[i] <= Len(fileData)
    /\ (reader_pc \in {"loop", "done"}) => pbar_total = Len(fileData)
    /\ (reader_pc = "done") => PbarN = Len(fileData)

\* C14 witness: the loop has finished after three updates, the last one for a
\* chunk shorter than chunk_size.
C14_Witness ==
    /\ reader_pc = "done"
    /\ Len(pbar_log) = 3
    /\ pbar_log[3] - pbar_log[2] < chunk_size
    /\ PbarN = Len(fileData)

\* the chunks of the generator so far: each yielded chunk is non-empty and at
\* most chunk_size long, the chunks are the file's bytes up to the position
\* of f in file order, every read but the last one of a finished loop was
\* yielded, and the loop has finished exactly when the last read was empty
C19_Chunks ==
    /\ \A i \in 1..Len(chunks) : Len(chunks[i]) \in 1..chunk_size
    /\ Concat(chunks) = SubSeq(fileData, 1, f_pos)
    /\ (reader_pc = "done") <=> (reads # <<>> /\ reads[Len(reads)] = <<>>)
    /\ reads = (IF reader_pc = "done" THEN Append(chunks, <<>>) ELSE chunks)
    /\ (reader_pc = "done" /\ fileData = <<>>) => chunks = <<>>

\* C19: the loop of the generator terminates for every file and every
\* positive chunk_size; every chunk it yields is non-empty and at most
\* chunk_size long, the chunks come in file order, the loop ends at the first
\* empty read, and an empty file yields no chunk.
C19_ChunkLoop == []C19_Chunks /\ <>(reader_pc = "done")

\* C19 witness: the loop has ended at its first empty read, the fourth read,
\* after three chunks.
C19_Witness ==
    /\ reader_pc = "done"
    /\ Len(reads) = 4
    /\ Len(chunks) = 3
    /\ f_pos = Len(fileData)

-----------------------------------------------------------------------------
(* The claims about main, under SpecCli.                                   *)

\* the operation the options select
SelectedOp == IF cli_opts.test_connection THEN "test_connection" ELSE "upload_file"

\* C16: a run exits with 0 exactly when the operation the options select was
\* called and returned True; it exits with 1 when the operation returned
\* False, when it raised, and when the construction of the uploader raised;
\* no handler turns the exit with 0 into another status.
C16_ExitCode ==
    /\ (cli_pc # "exit") => exit_code = NotExited
    /\ (cli_pc = "exit") =>
          /\ exit_code \in {0, 1}
          /\ (exit_code = 0) <=> (lastCall.op = SelectedOp /\ lastCall.result = "True")
          /\ (lastCall.result \notin {"True", "none"}) =>
                (lastCall.op = SelectedOp /\ exit_code = 1)
          /\ (phase = "failed") =>
                (init_error = "ValueError" /\ lastCall = NoCall /\ exit_code = 1)

\* C16 witness: a run has exited with 0 after upload_file returned True.
C16_Witness ==
    /\ cli_pc = "exit"
    /\ exit_code = 0
    /\ lastCall.op = "upload_file"
    /\ lastCall.result = "True"

\* C18 as claimed: a run with --test-connection issues one PROPFIND and then
\* exits, and never a PUT; a run without it issues no PROPFIND and at most
\* one PUT.
C18_Original ==
    /\ cli_opts.test_connection =>
          /\ nPut = 0
          /\ nPropfind <= 1
          /\ (cli_pc = "exit") <=> (nPropfind = 1)
    /\ (cli_pc # "off" /\ ~cli_opts.test_connection) =>
          /\ nPropfind = 0
          /\ nPut <= 1

\* C18 as amended: a run with --test-connection whose uploader was
\* constructed issues one PROPFIND and then exits, whatever the test
\* returned, and never a PUT; a run without it issues no PROPFIND and at
\* most one PUT; a run whose share URL does not resolve exits with no
\* request at all.
C18_OneOperation ==
    /\ cli_opts.test_connection =>
          /\ nPut = 0
          /\ nPropfind <= 1
          /\ (nPropfind = 1) => (cli_pc = "exit" /\ lastCall.op = "test_connection")
          /\ (cli_pc = "exit") => (nPropfind = (IF phase = "ready" THEN 1 ELSE 0))
    /\ (cli_pc # "off" /\ ~cli_opts.test_connection) =>
          /\ nPropfind = 0
          /\ nPut <= 1
          /\ (nPut = 1) => (cli_pc = "exit" /\ lastCall.op = "upload_file")
    /\ (phase = "failed") => (Requests = 0 /\ nCalls = 0)
    /\ nCalls <= 1

\* C18 witness: a run with --test-connection has exited after a PROPFIND
\* that was refused, without a PUT.
C18_Witness ==
    /\ cli_opts.test_connection
    /\ cli_pc = "exit"
    /\ lastCall.result = "False"
    /\ nPropfind = 1
    /\ nPut = 0

====
